---------------------------- MODULE Spec2Model ----------------------------
(***************************************************************************)
(* A model of app.py, the CV question-answering Dash application.          *)
(*                                                                         *)
(*   Spec         the process as it runs: the module body, run_server,     *)
(*                browser sessions firing the update_chat callback, the    *)
(*                server handling each request, the browser applying each  *)
(*                response.                                                *)
(*   SpecFetch    download_index_folder run (twice) against a remote       *)
(*                bucket, as load_vector_store calls it.                   *)
(*   SpecQuery    CVQueryApp.query applied to a loaded vector store.       *)
(*                                                                         *)
(* Strings whose content matters are sequences of tokens (characters or    *)
(* fixed pieces of text), so that concatenation, prefix and suffix tests   *)
(* are computed and not assumed.                                           *)
(***************************************************************************)
EXTENDS Integers, Sequences, FiniteSets, TLC

VARIABLES
    \* ---- the process (Spec)
    env,                    \* os.environ: which variables are set
    pc,                     \* position of the interpreter in the module
    module_globals,         \* the module namespace: name -> value
    instances,              \* number of CVQueryApp objects constructed
    listening,              \* run_server has bound the HTTP listener
    served,                 \* callback requests the server has handled
    last,                   \* what the last run of update_chat did
    \* ---- one browser session each (the layout's components)
    chat_history_children,  \* html.Div 'chat-history' .children
    chat_store_data,        \* dcc.Store 'chat-store' .data
    user_input_value,       \* dcc.Input 'user-input' .value
    fake_typing_disabled,   \* dcc.Interval 'fake-typing' .disabled
    n_clicks,               \* html.Button 'submit-button' .n_clicks
    n_intervals,            \* dcc.Interval 'fake-typing' .n_intervals
    pending,                \* callback requests sent, not yet handled
    responses,              \* responses sent, not yet applied by the browser
    submitted,              \* the questions each session submitted, in order
    overlapped,             \* the session submitted while a request was out
    \* ---- download_index_folder (SpecFetch)
    fpc, bucket, listing, fidx, dest, dest_before, dest_first, run,
    \* ---- CVQueryApp.query (SpecQuery)
    qpc, qstore, qquestion, qext, qresult

appVars == <<env, pc, module_globals, instances, listening, served, last,
             chat_history_children, chat_store_data, user_input_value,
             fake_typing_disabled, n_clicks, n_intervals, pending, responses,
             submitted, overlapped>>
fetchVars == <<fpc, bucket, listing, fidx, dest, dest_before, dest_first, run>>
queryVars == <<qpc, qstore, qquestion, qext, qresult>>
vars == <<appVars, fetchVars, queryVars>>

-----------------------------------------------------------------------------
(* Bounds of the model.                                                    *)
NumSessions == 2
MaxSubmits == 2
MaxTicks == 1

Sessions == 1..NumSessions
Questions == {"Q1", "Q2"}
None == "None"
(* An output of a callback: <<>> for dash.no_update, <<v>> for a value v.   *)
NoUpdate == <<>>
Value(v) == <<v>>

-----------------------------------------------------------------------------
(* Sequence helpers.                                                       *)
Min(a, b) == IF a <= b THEN a ELSE b

RECURSIVE Concat(_)
Concat(ss) == IF ss = <<>> THEN <<>> ELSE Head(ss) \o Concat(Tail(ss))

StartsWith(s, p) == Len(p) <= Len(s) /\ SubSeq(s, 1, Len(p)) = p


-----------------------------------------------------------------------------
(* The vector store: a sequence of chunks, each with the section it came   *)
(* from, its text and its embedding. Embeddings are integer vectors.       *)
(* Indexes and query vectors are drawn from the families below.            *)
MaxChunks == 22
MaxSeed == 2

SectionPool == << <<"S">>, <<"E", "d">>, <<>>, <<"S", "]">> >>
TextPool == << <<"X">>, <<"X", "\n", "Y">>, <<>>, <<"[", "X", "]">>, <<"Y", "\n">> >>

GenChunk(seed, i) ==
    [ id      |-> i,
      section |-> SectionPool[((i + seed) % Len(SectionPool)) + 1],
      text    |-> TextPool[((i * (seed + 1) + seed) % Len(TextPool)) + 1],
      emb     |-> << (i * (seed + 1)) % 5, (i * i + seed) % 4 >> ]

GenIndex(seed, n) == [i \in 1..n |-> GenChunk(seed, i)]

Dist(a, b) == (a[1] - b[1]) * (a[1] - b[1]) + (a[2] - b[2]) * (a[2] - b[2])
Sim(a, b) == a[1] * b[1] + a[2] * b[2]

(* search_kwargs of the retriever: k, fetch_k, lambda_mult = 7/10.         *)
K == 8
FetchKTooSmall == K - 3
FetchK == 20
LambdaNum == 7
LambdaDen == 10

(* The fetch_k chunks nearest to the query vector, nearest first; chunks   *)
(* at the same distance in index order.                                    *)
RECURSIVE Nearest(_, _, _, _)
Nearest(store, q, remaining, m) ==
    IF m = 0 \/ remaining = {} THEN <<>>
    ELSE LET best == CHOOSE i \in remaining : \A j \in remaining :
                        \/ Dist(store[i].emb, q) < Dist(store[j].emb, q)
                        \/ /\ Dist(store[i].emb, q) = Dist(store[j].emb, q)
                           /\ i <= j
         IN  <<best>> \o Nearest(store, q, remaining \ {best}, m - 1)

FetchNearest(store, q) == Nearest(store, q, 1..Len(store), FetchK)

MaxOf(S) == CHOOSE x \in S : \A y \in S : x >= y

(* The marginal-relevance score of candidate c given the chunks selected   *)
(* so far, scaled by LambdaDen.                                            *)
MMRScore(store, q, c, selected) ==
    LET redundancy ==
            IF selected = <<>> THEN 0
            ELSE MaxOf({ Sim(store[c].emb, store[selected[j]].emb) :
                         j \in 1..Len(selected) })
    IN  LambdaNum * Sim(store[c].emb, q) - (LambdaDen - LambdaNum) * redundancy

PickFirstCandidate(store, q, pool, selected) == pool[1]

(* The candidate of the pool with the greatest score; the earliest in the  *)
(* pool among equals.                                                      *)
PickBest(store, q, pool, selected) ==
    LET pos == CHOOSE i \in 1..Len(pool) : \A j \in 1..Len(pool) :
                   \/ MMRScore(store, q, pool[i], selected)
                        > MMRScore(store, q, pool[j], selected)
                   \/ /\ MMRScore(store, q, pool[i], selected)
                           = MMRScore(store, q, pool[j], selected)
                      /\ i <= j
    IN  pool[pos]

Without(pool, c) == SelectSeq(pool, LAMBDA x : x # c)

RECURSIVE MMRSelect(_, _, _, _)
MMRSelect(store, q, pool, selected) ==
    IF Len(selected) >= K \/ pool = <<>> THEN selected
    ELSE LET c == PickBest(store, q, pool, selected)
         IN  MMRSelect(store, q, Without(pool, c), Append(selected, c))

(* as_retriever(search_type="mmr", ...).get_relevant_documents(question):  *)
(* the positions of the selected chunks, in selection order.               *)
Retrieve(store, q) == MMRSelect(store, q, FetchNearest(store, q), <<>>)

-----------------------------------------------------------------------------
(* CVQueryApp.query.                                                       *)

(* f"[{doc.metadata['section']}]\n{doc.page_content}"                      *)
FormatDoc(doc) == <<"[">> \o doc.section \o <<"]", "\n">> \o doc.text

JoinTrailing(sep, parts) == Concat([i \in 1..Len(parts) |-> parts[i] \o sep])

(* str.join: the parts with sep between each two neighbours.               *)
RECURSIVE Join(_, _)
Join(sep, parts) ==
    IF parts = <<>> THEN <<>>
    ELSE IF Len(parts) = 1 THEN parts[1]
    ELSE parts[1] \o sep \o Join(sep, Tail(parts))

Assemble(docs) == Join(<<"\n">>, [i \in 1..Len(docs) |-> FormatDoc(docs[i])])

SystemPrompt == <<"You are a precise CV analysis assistant. ...">>

Messages(context, question) ==
    << [role |-> "system", content |-> SystemPrompt],
       [role |-> "user",
        content |-> <<"Based on these CV sections:", "\n">> \o context
                      \o <<"\n", "\n", "Question: ", question>>] >>

(* The embedding of a question (computed by the remote embedding model).   *)
Embed(question) ==
    CASE question = "Q1" -> <<1, 0>>
      [] question = "Q2" -> <<2, 3>>
      [] OTHER -> <<4, 1>>

(* The text the completion model returns for a question (computed by the   *)
(* remote model from the messages).                                        *)
CompletionText(question) == <<"answer to ", question>>

(* What the remote services do during one call of query: whether the       *)
(* retriever (embedding the question, searching) raises and whether the    *)
(* completion call raises.                                                 *)
Ext == [ retrieval : {"ok", "raise"}, completion : {"ok", "raise"} ]

ErrorString(e) == <<"Error", ": ", e>>

query(store, question, ext) ==
    IF ext.retrieval = "raise"
    THEN [docs |-> <<>>, context |-> <<>>, messages |-> <<>>,
          ret |-> ErrorString("retrieval failed")]
    ELSE LET sel  == Retrieve(store, Embed(question))
             docs == [i \in 1..Len(sel) |-> store[sel[i]]]
             context == Assemble(docs)
             messages == Messages(context, question)
         IN  IF ext.completion = "raise"
             THEN [docs |-> docs, context |-> context, messages |-> messages,
                   ret |-> ErrorString("completion failed")]
             ELSE [docs |-> docs, context |-> context, messages |-> messages,
                   ret |-> CompletionText(question)]

-----------------------------------------------------------------------------
(* The update_chat callback.                                               *)

SubmitProp == [id |-> "submit-button", prop |-> "n_clicks"]
TickProp == [id |-> "fake-typing", prop |-> "n_intervals"]

UserBubble(text) == [className |-> "message-bubble user-bubble", children |-> text]
BotBubble(text) == [className |-> "message-bubble bot-bubble", children |-> text]
TypingIndicator == [className |-> "typing-indicator", children |-> <<"dot", "dot", "dot">>]

(* The transcript of a history: for each pair its question bubble, then    *)
(* its answer bubble.                                                      *)
RECURSIVE Render(_)
Render(history) ==
    IF history = <<>> THEN <<>>
    ELSE <<UserBubble(Head(history).user), BotBubble(Head(history).bot)>>
           \o Render(Tail(history))

Returned(children, data, value, disabled) ==
    [raised |-> FALSE, exc |-> None, children |-> children, data |-> data,
     value |-> value, disabled |-> disabled]

Raised(exc) ==
    [raised |-> TRUE, exc |-> exc, children |-> NoUpdate, data |-> NoUpdate,
     value |-> NoUpdate, disabled |-> NoUpdate]

(* update_chat(n_clicks, n_intervals, user_input, chat_history), run in a  *)
(* module namespace globs, with ctx.triggered = triggered. Reading the     *)
(* global cv_app raises NameError when the namespace does not bind it.     *)
update_chat(triggered, user_input, chat_history, globs, ext) ==
    IF triggered = <<>>
    THEN Returned(NoUpdate, NoUpdate, NoUpdate, NoUpdate)
    ELSE IF triggered[1].id = "submit-button"
    THEN IF "cv_app" \notin DOMAIN globs
         THEN Raised("NameError: name 'cv_app' is not defined")
         ELSE LET response == query(globs["cv_app"], user_input, ext).ret
                  history  == Append(chat_history,
                                     [user |-> user_input, bot |-> response])
              IN  Returned(Value(Append(Render(history), TypingIndicator)),
                           Value(history), Value(""), Value(FALSE))
    ELSE IF triggered[1].id = "fake-typing"
    THEN Returned(NoUpdate, NoUpdate, NoUpdate, Value(TRUE))
    ELSE Returned(NoUpdate, NoUpdate, NoUpdate, Value(TRUE))

-----------------------------------------------------------------------------
(* The process.                                                            *)

(* The names the module body binds, in the order it binds them.            *)
ModuleNames ==
    [ logger |-> "Logger", download_index_folder |-> "function",
      load_vector_store |-> "function", CVQueryApp |-> "class",
      app |-> "Dash", server |-> "Flask", update_chat |-> "callback" ]

AppInit ==
    /\ env \in [ OPENAI_API_KEY : BOOLEAN, GOOGLE_CREDENTIALS_JSON : BOOLEAN,
                 GOOGLE_APPLICATION_CREDENTIALS : {FALSE} ]
    /\ pc = "import"
    /\ module_globals = <<>>
    /\ instances = 0
    /\ listening = FALSE
    /\ served = 0
    /\ last = [kind |-> "none"]
    /\ chat_history_children = [s \in Sessions |-> <<>>]
    /\ chat_store_data = [s \in Sessions |-> <<>>]
    /\ user_input_value = [s \in Sessions |-> None]
    /\ fake_typing_disabled = [s \in Sessions |-> TRUE]
    /\ n_clicks = [s \in Sessions |-> 0]
    /\ n_intervals = [s \in Sessions |-> 0]
    /\ pending = {}
    /\ responses = {}
    /\ submitted = [s \in Sessions |-> <<>>]
    /\ overlapped = [s \in Sessions |-> FALSE]

FetchIdle ==
    /\ fpc = "off" /\ bucket = <<>> /\ listing = <<>> /\ fidx = 0
    /\ dest = <<>> /\ dest_before = <<>> /\ dest_first = <<>> /\ run = 0

QueryIdle ==
    /\ qpc = "off" /\ qstore = <<>> /\ qquestion = None
    /\ qext = None /\ qresult = None

Init == AppInit /\ FetchIdle /\ QueryIdle

(* The module body, lines 1 to 381: the credentials file is written when   *)
(* GOOGLE_CREDENTIALS_JSON is set, the functions, the class, the Dash app, *)
(* its layout and its callback are defined. No statement of the module     *)
(* calls CVQueryApp or binds cv_app.                                       *)
ImportModule ==
    /\ pc = "import"
    /\ env' = [env EXCEPT !.GOOGLE_APPLICATION_CREDENTIALS =
                              env.GOOGLE_CREDENTIALS_JSON]
    /\ module_globals' = ModuleNames
    /\ pc' = "main"
    /\ UNCHANGED <<instances, listening, served, last, chat_history_children,
                   chat_store_data, user_input_value, fake_typing_disabled,
                   n_clicks, n_intervals, pending, responses, submitted,
                   overlapped>>
    /\ UNCHANGED <<fetchVars, queryVars>>

(* if __name__ == '__main__': app.run_server(host='0.0.0.0', port=port)    *)
RunServer ==
    /\ pc = "main"
    /\ listening' = TRUE
    /\ pc' = "serving"
    /\ UNCHANGED <<env, module_globals, instances, served, last,
                   chat_history_children, chat_store_data, user_input_value,
                   fake_typing_disabled, n_clicks, n_intervals, pending,
                   responses, submitted, overlapped>>
    /\ UNCHANGED <<fetchVars, queryVars>>

(* The user edits the input field of session s.                            *)
TypeInput(s, q) ==
    /\ listening
    /\ user_input_value[s] # q
    /\ user_input_value' = [user_input_value EXCEPT ![s] = q]
    /\ UNCHANGED <<env, pc, module_globals, instances, listening, served, last,
                   chat_history_children, chat_store_data,
                   fake_typing_disabled, n_clicks, n_intervals, pending,
                   responses, submitted, overlapped>>
    /\ UNCHANGED <<fetchVars, queryVars>>

Outstanding(s) ==
    {r \in pending : r.session = s} \cup {r \in responses : r.session = s}

(* The callback's Inputs that can change in session s: the button can be   *)
(* clicked at any time, the interval counts only while it is enabled.      *)
Triggerable(s) ==
    (IF n_clicks[s] < MaxSubmits THEN {SubmitProp} ELSE {})
    \cup (IF ~fake_typing_disabled[s] /\ n_intervals[s] < MaxTicks
          THEN {TickProp} ELSE {})

(* An Input of the callback changes in session s: the browser posts the    *)
(* callback request with the State it holds at that moment.                *)
Trigger(s) ==
    /\ listening
    /\ \E prop \in Triggerable(s) :
         /\ n_clicks' = [n_clicks EXCEPT ![s] =
                            IF prop = SubmitProp THEN @ + 1 ELSE @]
         /\ n_intervals' = [n_intervals EXCEPT ![s] =
                               IF prop = TickProp THEN @ + 1 ELSE @]
         /\ pending' = pending \cup
                {[ session |-> s, seq |-> n_clicks[s] + n_intervals[s] + 1,
                   triggered |-> <<prop>>,
                   user_input |-> user_input_value[s],
                   chat_history |-> chat_store_data[s] ]}
         /\ submitted' = [submitted EXCEPT ![s] =
                             IF prop = SubmitProp
                             THEN Append(@, user_input_value[s]) ELSE @]
         /\ overlapped' = [overlapped EXCEPT ![s] =
                              @ \/ (prop = SubmitProp /\ Outstanding(s) # {})]
    /\ UNCHANGED <<env, pc, module_globals, instances, listening, served, last,
                   chat_history_children, chat_store_data, user_input_value,
                   fake_typing_disabled, responses>>
    /\ UNCHANGED <<fetchVars, queryVars>>

(* The server runs update_chat for one request. An exception leaving the   *)
(* callback is answered with status 500, a return with the four outputs.   *)
Serve(r) ==
    /\ r \in pending
    /\ \E ext \in Ext :
         LET out == update_chat(r.triggered, r.user_input, r.chat_history,
                                module_globals, ext)
         IN  /\ responses' = responses \cup
                    {[ session |-> r.session, seq |-> r.seq, out |-> out ]}
             /\ last' = [ kind |-> "served", triggered |-> r.triggered,
                          user_input |-> r.user_input,
                          chat_history |-> r.chat_history,
                          globals |-> DOMAIN module_globals, ext |-> ext,
                          out |-> out ]
    /\ pending' = pending \ {r}
    /\ served' = served + 1
    /\ UNCHANGED <<env, pc, module_globals, instances, listening,
                   chat_history_children, chat_store_data, user_input_value,
                   fake_typing_disabled, n_clicks, n_intervals, submitted,
                   overlapped>>
    /\ UNCHANGED <<fetchVars, queryVars>>

Apply(old, new) == IF new = NoUpdate THEN old ELSE new[1]

(* The browser applies a response: each output that is not no_update is    *)
(* set; a status 500 sets nothing.                                         *)
Deliver(r) ==
    /\ r \in responses
    /\ responses' = responses \ {r}
    /\ chat_history_children' = [chat_history_children EXCEPT
                                   ![r.session] = Apply(@, r.out.children)]
    /\ chat_store_data' = [chat_store_data EXCEPT
                             ![r.session] = Apply(@, r.out.data)]
    /\ user_input_value' = [user_input_value EXCEPT
                              ![r.session] = Apply(@, r.out.value)]
    /\ fake_typing_disabled' = [fake_typing_disabled EXCEPT
                                  ![r.session] = Apply(@, r.out.disabled)]
    /\ UNCHANGED <<env, pc, module_globals, instances, listening, served, last,
                   n_clicks, n_intervals, pending, submitted, overlapped>>
    /\ UNCHANGED <<fetchVars, queryVars>>

Next ==
    \/ ImportModule
    \/ RunServer
    \/ \E s \in Sessions, q \in Questions : TypeInput(s, q)
    \/ \E s \in Sessions : Trigger(s)
    \/ \E r \in pending : Serve(r)
    \/ \E r \in responses : Deliver(r)

Spec == Init /\ [][Next]_vars

-----------------------------------------------------------------------------
(* CVQueryApp.__init__, load_vector_store and download_index_folder: the   *)
(* construction of a CVQueryApp, run a second time (a restart of the       *)
(* process on the same machine) against an unchanged bucket.               *)
(*                                                                         *)
(* An object name is a sequence of tokens, "/" being a token of its own.   *)
MaxBlobs == 3

SourceFolder == <<"idx">>
KeyPool ==
    { <<"idx", "/">>,
      <<"idx", "/", "index.faiss">>,
      <<"idx", "/", "index.pkl">>,
      <<"idx", "/", "old", "/", "index.faiss">>,
      <<"idx", "-v2", "/", "index.pkl">>,
      <<"other", "/", "index.faiss">> }
BlobContents == {"c1", "c2"}
StaleDirs ==
    { <<>>, [f \in {<<"index.pkl">>} |-> "stale"],
      [f \in {<<"notes.txt">>} |-> "stale"] }

Blobs == [name : KeyPool, content : BlobContents]
BucketsOfSize(n) ==
    { b \in [1..n -> Blobs] :
        \A i \in 1..n, j \in 1..n : i # j => b[i].name # b[j].name }

(* blob.name.endswith('/')                                                 *)
EndsWithSlash(name) == name # <<>> /\ name[Len(name)] = "/"

(* os.path.basename: what follows the last "/".                            *)
RECURSIVE Basename(_)
Basename(name) ==
    IF name = <<>> \/ name[Len(name)] = "/" THEN <<>>
    ELSE Append(Basename(SubSeq(name, 1, Len(name) - 1)), name[Len(name)])

(* bucket.list_blobs(prefix=source_folder): the objects whose name starts  *)
(* with the prefix, in the order the bucket lists them.                    *)
ListBlobs(b, prefix) == SelectSeq(b, LAMBDA blob : StartsWith(blob.name, prefix))

WriteFile(dir, file, content) ==
    [f \in DOMAIN dir \cup {file} |-> IF f = file THEN content ELSE dir[f]]

KeepFirstDownload(dir, blob) ==
    IF Basename(blob.name) \in DOMAIN dir THEN dir
    ELSE WriteFile(dir, Basename(blob.name), blob.content)

(* One pass of the loop body for a blob that is not skipped:               *)
(* blob.download_to_filename(os.path.join(destination_dir, basename)).     *)
DownloadTo(dir, blob) == WriteFile(dir, Basename(blob.name), blob.content)

FetchInit ==
    /\ env \in [ OPENAI_API_KEY : BOOLEAN, GOOGLE_CREDENTIALS_JSON : {TRUE},
                 GOOGLE_APPLICATION_CREDENTIALS : {TRUE} ]
    /\ fpc = "init"
    /\ bucket \in UNION { BucketsOfSize(n) : n \in 0..MaxBlobs }
    /\ listing = <<>>
    /\ fidx = 0
    /\ dest_before \in StaleDirs
    /\ dest = dest_before
    /\ dest_first = <<>>
    /\ run = 1
    /\ pc = "off" /\ module_globals = <<>> /\ instances = 0
    /\ listening = FALSE /\ served = 0 /\ last = [kind |-> "none"]
    /\ chat_history_children = <<>> /\ chat_store_data = <<>>
    /\ user_input_value = <<>> /\ fake_typing_disabled = <<>>
    /\ n_clicks = <<>> /\ n_intervals = <<>> /\ pending = {}
    /\ responses = {} /\ submitted = <<>> /\ overlapped = <<>>
    /\ QueryIdle

(* __init__, lines 77 to 87: a missing OPENAI_API_KEY raises ValueError,   *)
(* which is logged and raised again; otherwise the clients are built and   *)
(* load_vector_store is entered.                                           *)
CheckApiKey ==
    /\ fpc = "init"
    /\ fpc' = IF env.OPENAI_API_KEY THEN "list" ELSE "raised"
    /\ UNCHANGED <<bucket, listing, fidx, dest, dest_before, dest_first, run>>
    /\ UNCHANGED <<appVars, queryVars>>

(* download_index_folder, lines 30 to 37: the directory is created if it   *)
(* is absent and the folder is listed.                                     *)
ListFolder ==
    /\ fpc = "list"
    /\ listing' = ListBlobs(bucket, SourceFolder)
    /\ fidx' = 1
    /\ fpc' = "loop"
    /\ UNCHANGED <<bucket, dest, dest_before, dest_first, run>>
    /\ UNCHANGED <<appVars, queryVars>>

(* One iteration of the loop, lines 39 to 49. The download of a blob may   *)
(* raise (network, permissions); the exception leaves __init__.            *)
DownloadBlob ==
    /\ fpc = "loop"
    /\ fidx <= Len(listing)
    /\ \/ /\ EndsWithSlash(listing[fidx].name)
          /\ fidx' = fidx + 1
          /\ UNCHANGED <<fpc, dest>>
       \/ /\ ~EndsWithSlash(listing[fidx].name)
          /\ dest' = DownloadTo(dest, listing[fidx])
          /\ fidx' = fidx + 1
          /\ UNCHANGED fpc
       \/ /\ ~EndsWithSlash(listing[fidx].name)
          /\ fpc' = "raised"
          /\ UNCHANGED <<fidx, dest>>
    /\ UNCHANGED <<bucket, listing, dest_before, dest_first, run>>
    /\ UNCHANGED <<appVars, queryVars>>

(* The loop is over: download_index_folder returns.                        *)
DownloadReturn ==
    /\ fpc = "loop"
    /\ fidx > Len(listing)
    /\ fpc' = "downloaded"
    /\ dest_first' = IF run = 1 THEN <<dest>> ELSE dest_first
    /\ UNCHANGED <<bucket, listing, fidx, dest, dest_before, run>>
    /\ UNCHANGED <<appVars, queryVars>>

(* load_vector_store, lines 59 to 73: FAISS.load_local reads index.faiss   *)
(* and index.pkl of the directory; without them it raises, which is        *)
(* logged and raised again.                                                *)
LoadLocal ==
    /\ fpc = "downloaded"
    /\ fpc' = IF {<<"index.faiss">>, <<"index.pkl">>} \subseteq DOMAIN dest
              THEN "constructed" ELSE "raised"
    /\ UNCHANGED <<bucket, listing, fidx, dest, dest_before, dest_first, run>>
    /\ UNCHANGED <<appVars, queryVars>>

(* The process ends and is started again; /tmp/faiss_index is kept.        *)
Restart ==
    /\ fpc \in {"constructed", "raised"}
    /\ run = 1
    /\ run' = 2
    /\ fpc' = "init"
    /\ listing' = <<>>
    /\ fidx' = 0
    /\ UNCHANGED <<bucket, dest, dest_before, dest_first>>
    /\ UNCHANGED <<appVars, queryVars>>

FetchNext ==
    \/ CheckApiKey
    \/ ListFolder
    \/ DownloadBlob
    \/ DownloadReturn
    \/ LoadLocal
    \/ Restart

SpecFetch == FetchInit /\ [][FetchNext]_vars

-----------------------------------------------------------------------------
(* CVQueryApp.query on a constructed CVQueryApp: one call after another    *)
(* on the same vector store.                                               *)
QueryQuestions == {"Q1", "Q2", "Q3"}

QueryInit ==
    /\ qpc = "ready"
    /\ \E seed \in 0..MaxSeed, n \in 0..MaxChunks : qstore = GenIndex(seed, n)
    /\ qquestion = None
    /\ qext = None
    /\ qresult = None
    /\ env = [ OPENAI_API_KEY |-> TRUE, GOOGLE_CREDENTIALS_JSON |-> TRUE,
               GOOGLE_APPLICATION_CREDENTIALS |-> TRUE ]
    /\ pc = "off" /\ module_globals = <<>> /\ instances = 1
    /\ listening = FALSE /\ served = 0 /\ last = [kind |-> "none"]
    /\ chat_history_children = <<>> /\ chat_store_data = <<>>
    /\ user_input_value = <<>> /\ fake_typing_disabled = <<>>
    /\ n_clicks = <<>> /\ n_intervals = <<>> /\ pending = {}
    /\ responses = {} /\ submitted = <<>> /\ overlapped = <<>>
    /\ FetchIdle

(* query(question), lines 95 to 124.                                       *)
RunQuery ==
    /\ qpc = "ready"
    /\ \E question \in QueryQuestions, ext \in Ext :
         /\ qquestion' = question
         /\ qext' = ext
         /\ qresult' = query(qstore, question, ext)
    /\ qpc' = "returned"
    /\ UNCHANGED qstore
    /\ UNCHANGED <<appVars, fetchVars>>

(* The caller takes the answer; the instance is ready for the next call.   *)
TakeAnswer ==
    /\ qpc = "returned"
    /\ qpc' = "ready"
    /\ qquestion' = None
    /\ qext' = None
    /\ qresult' = None
    /\ UNCHANGED qstore
    /\ UNCHANGED <<appVars, fetchVars>>

QueryNext == RunQuery \/ TakeAnswer

SpecQuery == QueryInit /\ [][QueryNext]_vars

-----------------------------------------------------------------------------
(* Retrieval.                                                              *)

RetrievalReturned == qpc = "returned" /\ qext.retrieval = "ok"

RetrievedIds == [i \in 1..Len(qresult.docs) |-> qresult.docs[i].id]

(* Chunk c is among the m nearest neighbours of q: fewer than m chunks     *)
(* are strictly nearer.                                                    *)
AmongNearest(store, q, c, m) ==
    Cardinality({ j \in 1..Len(store) :
                    Dist(store[j].emb, q) < Dist(store[c].emb, q) }) < m

(* 10 * (0.7 * relevance - 0.3 * greatest similarity to a chunk of prev).  *)
MarginalRelevance(store, q, c, prev) ==
    7 * Sim(store[c].emb, q)
      - 3 * (IF prev = {} THEN 0
             ELSE MaxOf({ Sim(store[c].emb, store[p].emb) : p \in prev }))

(* C7: a retrieval over n chunks returns exactly min(8, n) chunks, all     *)
(* different, each among the 20 nearest neighbours of the query, and the   *)
(* t-th of them has the greatest marginal relevance, given the t-1 chunks  *)
(* before it, of all candidates not yet selected.                          *)
C7_RetrievalBound ==
    RetrievalReturned =>
      LET ids == RetrievedIds
          q   == Embed(qquestion)
          candidates == { FetchNearest(qstore, q)[i] :
                            i \in 1..Len(FetchNearest(qstore, q)) }
      IN  /\ Len(ids) = Min(8, Len(qstore))
          /\ \A i \in 1..Len(ids), j \in 1..Len(ids) : i # j => ids[i] # ids[j]
          /\ \A i \in 1..Len(ids) :
                /\ ids[i] \in 1..Len(qstore)
                /\ qresult.docs[i] = qstore[ids[i]]
                /\ AmongNearest(qstore, q, ids[i], 20)
          /\ \A t \in 1..Len(ids) :
                LET prev == { ids[u] : u \in 1..(t - 1) }
                IN  \A c \in candidates \ prev :
                      MarginalRelevance(qstore, q, ids[t], prev)
                        >= MarginalRelevance(qstore, q, c, prev)

(* A retrieval over more than 20 chunks returned 8 of them, and not the 8  *)
(* nearest in order: the similarity to the selected chunks decided.        *)
C7_Witness ==
    /\ RetrievalReturned
    /\ Len(qstore) > 20
    /\ Len(qresult.docs) = 8
    /\ RetrievedIds # SubSeq(FetchNearest(qstore, Embed(qquestion)), 1, 8)

-----------------------------------------------------------------------------
(* Context assembly.                                                       *)

(* The length of what one chunk contributes: "[", section, "]", newline,   *)
(* text.                                                                   *)
EmittedLen(doc) == Len(doc.section) + Len(doc.text) + 3

(* Where chunk i's text starts in the context: after the i-1 chunks        *)
(* before it and one newline after each of them.                           *)
RECURSIVE Offset(_, _)
Offset(docs, i) ==
    IF i = 1 THEN 0 ELSE Offset(docs, i - 1) + EmittedLen(docs[i - 1]) + 1

(* C8: the context is the retrieved chunks in order, each as "[section]",  *)
(* newline, text, with one newline between two chunks and none before the  *)
(* first or after the last; no chunk gives the empty string, one chunk     *)
(* {section: S, text: X} gives exactly "[S]\nX".                           *)
C8_ContextAssembly ==
    RetrievalReturned =>
      LET docs == qresult.docs
          ctx  == qresult.context
          n    == Len(docs)
      IN  /\ n = 0 => ctx = <<>>
          /\ n = 1 => ctx = <<"[">> \o docs[1].section \o <<"]", "\n">>
                              \o docs[1].text
          /\ n > 0 => Len(ctx) = Offset(docs, n) + EmittedLen(docs[n])
          /\ \A i \in 1..n :
                LET o == Offset(docs, i)
                    s == Len(docs[i].section)
                IN  /\ ctx[o + 1] = "["
                    /\ SubSeq(ctx, o + 2, o + 1 + s) = docs[i].section
                    /\ ctx[o + s + 2] = "]"
                    /\ ctx[o + s + 3] = "\n"
                    /\ SubSeq(ctx, o + s + 4, o + EmittedLen(docs[i]))
                         = docs[i].text
                    /\ i > 1 => ctx[o] = "\n"

(* A context was assembled from several chunks, one of them with an empty  *)
(* text and one whose text ends in a newline.                              *)
C8_Witness ==
    /\ RetrievalReturned
    /\ Len(qresult.docs) >= 2
    /\ \E i \in 1..Len(qresult.docs) : qresult.docs[i].text = <<>>
    /\ \E i \in 1..Len(qresult.docs) : qresult.docs[i].text = <<"Y", "\n">>
    /\ qresult.context # <<>>

-----------------------------------------------------------------------------
(* The Index Fetcher.                                                      *)

(* Object i of the bucket is in the source folder and no directory marker. *)
Fetched(i) ==
    /\ StartsWith(bucket[i].name, SourceFolder)
    /\ ~EndsWithSlash(bucket[i].name)

SameFile(i, j) == Basename(bucket[i].name) = Basename(bucket[j].name)

(* Every new file of the directory is the file of a fetched object.        *)
NoOtherFiles ==
    \A f \in DOMAIN dest \ DOMAIN dest_before :
        \E i \in 1..Len(bucket) : Fetched(i) /\ Basename(bucket[i].name) = f

(* A second fetch, after a first that succeeded, ends with the directory   *)
(* the first one left.                                                     *)
SecondFetchSame == (run = 2 /\ Len(dest_first) = 1) => dest = dest_first[1]

(* C9 as stated: after a fetch that succeeded every object of the folder   *)
(* that is no directory marker is a file named basename(key) holding that  *)
(* object's content; markers give no file; a second fetch changes nothing. *)
C9_EveryObjectKeepsItsContent ==
    fpc = "downloaded" =>
      /\ \A i \in 1..Len(bucket) : Fetched(i) =>
            /\ Basename(bucket[i].name) \in DOMAIN dest
            /\ dest[Basename(bucket[i].name)] = bucket[i].content
      /\ NoOtherFiles
      /\ SecondFetchSame

(* C9 amended: after a fetch that succeeded every object of the folder     *)
(* that is no directory marker has a file named basename(key), and that    *)
(* file holds the content of the object listed last among those with that  *)
(* basename; markers give no file; a second fetch changes nothing.         *)
C9_LastListedObjectWins ==
    fpc = "downloaded" =>
      /\ \A i \in 1..Len(bucket) : Fetched(i) =>
            /\ Basename(bucket[i].name) \in DOMAIN dest
            /\ (\A j \in (i + 1)..Len(bucket) : ~(Fetched(j) /\ SameFile(i, j)))
                 => dest[Basename(bucket[i].name)] = bucket[i].content
      /\ NoOtherFiles
      /\ SecondFetchSame

(* A second fetch has ended after a first that succeeded, for a folder     *)
(* holding a directory marker and two objects of the same basename and     *)
(* different content, into a directory that held a file of that name.      *)
C9_Witness ==
    /\ fpc = "downloaded"
    /\ run = 2
    /\ Len(dest_first) = 1
    /\ \E i \in 1..Len(bucket) :
          StartsWith(bucket[i].name, SourceFolder) /\ EndsWithSlash(bucket[i].name)
    /\ \E i \in 1..Len(bucket), j \in 1..Len(bucket) :
          /\ i < j /\ Fetched(i) /\ Fetched(j) /\ SameFile(i, j)
          /\ bucket[i].content # bucket[j].content
          /\ Basename(bucket[i].name) \in DOMAIN dest_before

-----------------------------------------------------------------------------
(* The conversation of a session.                                          *)

SubmitServed == last.kind = "served" /\ last.triggered[1] = SubmitProp
TickServed == last.kind = "served" /\ last.triggered[1] = TickProp

AskedQuestions(history) == [i \in 1..Len(history) |-> history[i].user]

(* Session s has submitted its questions one after another and has the     *)
(* response to the last of them.                                           *)
SubmittedInTurn(s) ==
    /\ submitted[s] # <<>>
    /\ ~overlapped[s]
    /\ Outstanding(s) = {}

(* C1: a session that submitted Q1..Qn one after another holds, after the  *)
(* n-th response, the pairs (Q1,A1)..(Qn,An) in that order, and its        *)
(* transcript is the replay of that history, each question bubble followed *)
(* by its answer bubble (then the typing indicator).                       *)
C1_TranscriptInSubmissionOrder ==
    \A s \in Sessions : SubmittedInTurn(s) =>
        /\ AskedQuestions(chat_store_data[s]) = submitted[s]
        /\ chat_history_children[s] \in
              { Render(chat_store_data[s]),
                Append(Render(chat_store_data[s]), TypingIndicator) }

(* C2: a run of update_chat for a submit returns the history it was given  *)
(* with one pair added at the end, whose question is the submitted input;  *)
(* a run for a timer tick leaves the history as it is.                     *)
C2_AppendOnly ==
    /\ SubmitServed =>
          /\ ~last.out.raised
          /\ last.out.data # NoUpdate
          /\ LET history == last.out.data[1]
             IN  /\ Len(history) = Len(last.chat_history) + 1
                 /\ SubSeq(history, 1, Len(last.chat_history)) = last.chat_history
                 /\ history[Len(history)].user = last.user_input
    /\ TickServed => (~last.out.raised /\ last.out.data = NoUpdate)

(* C3: when retrieval or the completion call fails for a submitted         *)
(* question, no exception leaves update_chat, the answer of the turn       *)
(* begins with "Error" and is the last pair, after the pairs of the prior  *)
(* history.                                                                *)
C3_ErrorIsolation ==
    (SubmitServed /\ (last.ext.retrieval = "raise" \/ last.ext.completion = "raise"))
      => /\ ~last.out.raised
         /\ last.out.data # NoUpdate
         /\ LET history == last.out.data[1]
            IN  /\ Len(history) = Len(last.chat_history) + 1
                /\ SubSeq(history, 1, Len(last.chat_history)) = last.chat_history
                /\ Head(history[Len(history)].bot) = "Error"

(* C4: without OPENAI_API_KEY the listener is never bound, and a request   *)
(* is served only by a process that constructed its pipeline.              *)
C4_FatalStartup ==
    /\ ~env.OPENAI_API_KEY => ~listening
    /\ served > 0 => instances > 0

(* C5: the pipeline object is constructed once, before a question is       *)
(* handled: while the server listens there is exactly one CVQueryApp, and  *)
(* every submit is handled with cv_app bound to it.                        *)
C5_PipelineConstructedOnce ==
    /\ instances <= 1
    /\ listening => instances = 1
    /\ SubmitServed => "cv_app" \in last.globals

(* C6: a session that submitted a question while the response to an        *)
(* earlier one was outstanding holds, once all its responses are in, one   *)
(* pair for each question it submitted, in submission order; and a         *)
(* session's history holds only questions that session submitted.          *)
C6_OneResponsePerQuestion ==
    /\ \A s \in Sessions : (overlapped[s] /\ Outstanding(s) = {}) =>
           AskedQuestions(chat_store_data[s]) = submitted[s]
    /\ \A s \in Sessions : \A i \in 1..Len(chat_store_data[s]) :
           \E j \in 1..Len(submitted[s]) :
               chat_store_data[s][i].user = submitted[s][j]

=============================================================================
